---- MODULE Spec2Model ----
(***************************************************************************)
(* A model of pytree/reg.py: segmented linear regression.                  *)
(*                                                                         *)
(*   IncrementalStat  a stack of numbers with its Welford histories Ex, M2 *)
(*   Leaf             six IncrementalStat objects over the pairs (x, y)    *)
(*   Node             two children and the threshold between them          *)
(*   compute_best_fit the sweep, the decision, the rewind, the recursion   *)
(*   simplify         the bottom-up merge of equivalent leaves             *)
(*   compute_regression  sort, default epsilon, Config, the root call      *)
(*                                                                         *)
(* Numbers.  Python's floats are modelled by exact rationals <<n, d>>      *)
(* (d > 0, lowest terms); <<1, 0>> is float('inf').  The two transcendental*)
(* functions the code calls, the logarithm and the square root, are        *)
(* evaluated on a grid of 2^-10.  math.isclose's rel_tol of 1e-09 is below *)
(* that resolution and is represented by equality.  Floating-point         *)
(* rounding noise is not modelled: two scores that are equal as real       *)
(* numbers are equal here.                                                 *)
(***************************************************************************)
EXTENDS Integers, Sequences, FiniteSets, TLC

VARIABLES
    pc,         \* where compute_regression (and the caller after it) stands
    dataset,    \* the sorted list of pairs (line 626)
    args,       \* the arguments as passed: x, then mode and epsilon
    config,     \* the Config object of the call (line 633)
    stack,      \* the frames of compute_best_fit, innermost last
    reg,        \* the tree returned (line 634), then simplified (line 636)
    regPrev,    \* the trees before each simplify(), oldest first
    oracle,     \* the argument simplify and the comparison of leaves in use
    raised,     \* the exception that ended the call, or "none"
    im,         \* a free-standing IncrementalStat driven by add and pop
    imLog       \* the last two operations on im, oldest first: name,
                \* argument, result, exception, and im before the operation

vars ==
    <<pc, dataset, args, config, stack, reg, regPrev, oracle, raised, im, imLog>>

regVars == <<pc, dataset, args, config, stack, reg, regPrev, oracle, raised>>

imVars == <<im, imLog>>

(***************************************************************************)
(* Bounds of the model.                                                    *)
(***************************************************************************)
MaxStatLen == 3

StatValues == {-1, 0, 2}

\* the datasets passed to compute_regression: every list of at most MaxLen
\* pairs over XValues and YValues, and every list of LongLen pairs with
\* x = 0, 1, 2, ... and y in LongYValues
MaxLen == 4

XValues == {0, 1, 2}

YValues == {0, 1, 3}

LongLen == 6

LongYValues == {1, 3}

NoValue == <<>>

(***************************************************************************)
(* Rational arithmetic.                                                    *)
(***************************************************************************)
Inf == <<1, 0>>

R(n) == <<n, 1>>

Abs(n) == IF n < 0 THEN -n ELSE n

RECURSIVE GCD(_, _)
GCD(a, b) == IF b = 0 THEN a ELSE GCD(b, a % b)

Reduce(n, d, g) == <<n \div g, d \div g>>

Norm(n, d) == Reduce(n, d, GCD(Abs(n), d))

IsInf(a) == a[2] = 0

RNeg(a) == <<-a[1], a[2]>>

RAbs(a) == <<Abs(a[1]), a[2]>>

\* a + b over the least common denominator, g the gcd of the denominators
AddOver(a, b, g) ==
    Norm(a[1] * (b[2] \div g) + b[1] * (a[2] \div g), a[2] * (b[2] \div g))

RAdd(a, b) ==
    IF IsInf(a) \/ IsInf(b) THEN Inf ELSE AddOver(a, b, GCD(a[2], b[2]))

RSub(a, b) == RAdd(a, RNeg(b))

\* a * b with the common factors g1 of a[1], b[2] and g2 of b[1], a[2] removed
MulOver(a, b, g1, g2) ==
    <<(a[1] \div g1) * (b[1] \div g2), (a[2] \div g2) * (b[2] \div g1)>>

RMul(a, b) ==
    IF IsInf(a) \/ IsInf(b) THEN Inf
    ELSE MulOver(a, b, GCD(Abs(a[1]), b[2]), GCD(Abs(b[1]), a[2]))

\* a / b for b # 0; a division by zero is decided by the caller, which
\* knows whether the ZeroDivisionError is caught
RDiv(a, b) ==
    RMul(a, IF b[1] > 0 THEN <<b[2], b[1]>> ELSE <<-b[2], -b[1]>>)

LessOver(a, b, g) == a[1] * (b[2] \div g) < b[1] * (a[2] \div g)

RLess(a, b) ==
    IF IsInf(a) THEN FALSE
    ELSE IF IsInf(b) THEN TRUE
    ELSE LessOver(a, b, GCD(a[2], b[2]))

RLeq(a, b) == a = b \/ RLess(a, b)

(***************************************************************************)
(* IncrementalStat (lines 22-94).  func is "identity" or "square".         *)
(***************************************************************************)
IncrementalStat(func) ==
    [values |-> <<>>, Ex |-> <<R(0)>>, M2 |-> <<R(0)>>, func |-> func]

Last(s) == s[Len(s)]

Front(s) == SubSeq(s, 1, Len(s) - 1)

ApplyFunc(func, val) == IF func = "square" THEN RMul(val, val) ELSE val

\* lines 50-53, with the locals of lines 44-49
IncrementalStat_add_store(self, original_value, val, Ex, M2, new_Ex) ==
    [self EXCEPT !.values = Append(@, original_value),
                 !.Ex = Append(@, new_Ex),
                 !.M2 = Append(@, RAdd(M2, RMul(RSub(val, Ex),
                                                RSub(val, new_Ex))))]

\* line 49, with the locals of lines 44-48
IncrementalStat_add_mean(self, original_value, val, Ex, M2, n) ==
    IncrementalStat_add_store(self, original_value, val, Ex, M2,
                              RAdd(Ex, RDiv(RSub(val, Ex), R(n))))

IncrementalStat_add(self, original_value) ==
    IncrementalStat_add_mean(self, original_value,
                             ApplyFunc(self.func, original_value),
                             Last(self.Ex), Last(self.M2),
                             Len(self.values) + 1)

\* list.pop(): the list without its last element and that element, or
\* IndexError on an empty list, which is left as it is
ListPop(list) ==
    IF Len(list) = 0
    THEN [list |-> list, ret |-> NoValue, exc |-> "IndexError"]
    ELSE [list |-> Front(list), ret |-> Last(list), exc |-> "none"]

\* a pop() that forgets the M2 history
Mutant_pop_keeps_M2(self) ==
    LET v == ListPop(self.values)
    IN  IF v.exc # "none"
        THEN [self |-> self, ret |-> NoValue, exc |-> v.exc]
        ELSE [self |-> [self EXCEPT !.values = v.list, !.Ex = Front(@)],
              ret |-> v.ret, exc |-> "none"]

\* a pop() that shortens the histories before it touches the values
Mutant_pop_histories_first(self) ==
    LET e == ListPop(self.Ex)
        m == ListPop(self.M2)
        v == ListPop(self.values)
    IN  [self |-> [self EXCEPT !.values = v.list, !.Ex = e.list, !.M2 = m.list],
         ret |-> v.ret, exc |-> v.exc]

\* lines 68-70, with v the result of line 67
IncrementalStat_pop_rest(self, v) ==
    IF v.exc # "none"
    THEN [self |-> self, ret |-> NoValue, exc |-> v.exc]
    ELSE [self |-> [self EXCEPT !.values = v.list,
                                !.Ex = ListPop(@).list,
                                !.M2 = ListPop(@).list],
          ret |-> v.ret, exc |-> "none"]

\* pop(): the three statements in order, stopping at the first that raises
IncrementalStat_pop(self) == IncrementalStat_pop_rest(self, ListPop(self.values))

IncrementalStat_len(self) == Len(self.values)

IncrementalStat_last(self) == Last(self.values)

IncrementalStat_first(self) == self.values[1]

IncrementalStat_mean(self) ==
    IF Len(self.values) = 0 THEN R(0) ELSE Last(self.Ex)

IncrementalStat_var(self) ==
    IF Len(self.values) = 0 THEN R(0)
    ELSE RDiv(Last(self.M2), R(Len(self.values)))

IncrementalStat_sum(self) ==
    RMul(IncrementalStat_mean(self), R(Len(self.values)))

(***************************************************************************)
(* math.log, math.log2 and ** (1/2) on the grid of 1/Scale.                *)
(***************************************************************************)
Scale == 2^10

MantissaScale == 2^14

RECURSIVE FloorLog2(_)
FloorLog2(a) == IF a < 2 THEN 0 ELSE 1 + FloorLog2(a \div 2)

\* the first j binary digits of log2(m / MantissaScale), 1 <= m/MantissaScale < 2
RECURSIVE Log2Fraction(_, _)
Log2Fraction(m, j) ==
    IF j = 0 THEN 0
    ELSE IF (m * m) \div MantissaScale >= 2 * MantissaScale
    THEN 2^(j - 1) + Log2Fraction(((m * m) \div MantissaScale) \div 2, j - 1)
    ELSE Log2Fraction((m * m) \div MantissaScale, j - 1)

\* Scale * log2(a), rounded down, for an integer a >= 1
Mantissa(a, k) == IF k <= 14 THEN a * 2^(14 - k) ELSE a \div 2^(k - 14)

Log2Characteristic(a, k) == k * Scale + Log2Fraction(Mantissa(a, k), 10)

Log2Int(a) == Log2Characteristic(a, FloorLog2(a))

\* math.log2 of a positive rational
Log2(q) == Norm(Log2Int(q[1]) - Log2Int(q[2]), Scale)

\* math.log of a positive rational: log2 times ln 2 = 22713/32768
Ln(q) ==
    Norm(((Log2Int(q[1]) - Log2Int(q[2])) * 22713) \div 32768, Scale)

\* math.log(math.ldexp(1.0, -1074)) = -1074 ln 2
LnSubnormal == Norm(-1074 * ((Scale * 22713) \div 32768), Scale)

RECURSIVE ISqrtBetween(_, _, _)
ISqrtBetween(n, lo, hi) ==
    IF lo >= hi THEN lo
    ELSE IF ((lo + hi + 1) \div 2) * ((lo + hi + 1) \div 2) <= n
    THEN ISqrtBetween(n, (lo + hi + 1) \div 2, hi)
    ELSE ISqrtBetween(n, lo, ((lo + hi + 1) \div 2) - 1)

\* the square root of a rational q >= 0
Sqrt(q) ==
    Norm(ISqrtBetween(((q[1] * Scale) \div q[2]) * Scale, 0, 46340), Scale)

\* math.isclose(a, b, abs_tol=abs_tol) with the default rel_tol
IsClose(a, b, abs_tol) ==
    IF IsInf(a) \/ IsInf(b) THEN a = b
    ELSE a = b \/ RLeq(RAbs(RSub(a, b)), abs_tol)

(***************************************************************************)
(* Config (lines 604-613).                                                 *)
(***************************************************************************)
allowed_modes == {"AIC", "BIC", "RSS"}

Config(m, eps) ==
    IF m \notin allowed_modes
    THEN [exc |-> "ValueError", mode |-> m, epsilon |-> eps]
    ELSE [exc |-> "none", mode |-> m, epsilon |-> eps]

(***************************************************************************)
(* Leaf (lines 202-411).  A leaf is a record of its six accumulators and   *)
(* of the errors attribute compute_best_fit may attach to it.              *)
(***************************************************************************)
\* lines 379-385, with dx of line 378 and newy, self.y after line 380
Leaf_add_rest(self, x, y, dx, newy) ==
    [self EXCEPT
        !.x = IncrementalStat_add(@, x),
        !.y = newy,
        !.xy = IncrementalStat_add(@, RMul(x, y)),
        !.x2 = IncrementalStat_add(@, x),
        !.y2 = IncrementalStat_add(@, y),
        !.cov_sum = IncrementalStat_add(@,
                        RMul(dx, RSub(y, IncrementalStat_mean(newy))))]

Leaf_add(self, x, y) ==
    Leaf_add_rest(self, x, y, RSub(x, IncrementalStat_mean(self.x)),
                  IncrementalStat_add(self.y, y))

RECURSIVE Leaf_add_all(_, _, _, _)
Leaf_add_all(self, x, y, i) ==
    IF i > Len(x) THEN self
    ELSE Leaf_add_all(Leaf_add(self, x[i], y[i]), x, y, i + 1)

\* Leaf(x, y, config): the config is the call's one Config object
Leaf(x, y) ==
    Leaf_add_all([kind    |-> "Leaf",
                  x       |-> IncrementalStat("identity"),
                  y       |-> IncrementalStat("identity"),
                  cov_sum |-> IncrementalStat("identity"),
                  xy      |-> IncrementalStat("identity"),
                  x2      |-> IncrementalStat("square"),
                  y2      |-> IncrementalStat("square"),
                  errors  |-> NoValue],
                 x, y, 1)

\* lines 390-393, with the results c of line 389 and px, py of line 393
Leaf_pop_rest(self, c, px, py) ==
    IF c.exc # "none"
    THEN [self |-> self, x |-> NoValue, y |-> NoValue, exc |-> c.exc]
    ELSE [self |-> [self EXCEPT !.cov_sum = c.self,
                                !.xy = IncrementalStat_pop(@).self,
                                !.x2 = IncrementalStat_pop(@).self,
                                !.y2 = IncrementalStat_pop(@).self,
                                !.x = px.self,
                                !.y = py.self],
          x |-> px.ret, y |-> py.ret, exc |-> "none"]

\* pop(): the six pops in the order of lines 389-393
Leaf_pop(self) ==
    Leaf_pop_rest(self, IncrementalStat_pop(self.cov_sum),
                  IncrementalStat_pop(self.x), IncrementalStat_pop(self.y))

Leaf_len(self) == IncrementalStat_len(self.x)

Leaf_first(self) == IncrementalStat_first(self.x)

Leaf_last(self) == IncrementalStat_last(self.x)

Leaf_mean_x(self) == IncrementalStat_mean(self.x)

Leaf_mean_y(self) == IncrementalStat_mean(self.y)

Leaf_std_x(self) == Sqrt(IncrementalStat_var(self.x))

Leaf_cov(self) == IncrementalStat_mean(self.cov_sum)

\* cov / x.var; the caller has excluded x.var = 0 (ZeroDivisionError)
Leaf_coeff(self) == RDiv(Leaf_cov(self), IncrementalStat_var(self.x))

Leaf_intercept(self) ==
    RSub(Leaf_mean_y(self), RMul(Leaf_coeff(self), Leaf_mean_x(self)))

\* lines 345-348, with the locals of lines 338-344 and n = len(self)
Leaf_RSS_sum(n, a, b, x, y, x2, y2, xy) ==
    RAdd(RSub(y2, RMul(R(2), RAdd(RMul(a, xy), RMul(b, y)))),
         RAdd(RAdd(RMul(RMul(a, a), x2),
                   RMul(RMul(R(2), RMul(a, b)), x)),
              RMul(R(n), RMul(b, b))))

Leaf_RSS(self) ==
    IF IncrementalStat_var(self.x) = R(0) THEN Inf   \* except ZeroDivisionError
    ELSE Leaf_RSS_sum(Leaf_len(self), Leaf_coeff(self), Leaf_intercept(self),
                      IncrementalStat_sum(self.x), IncrementalStat_sum(self.y),
                      IncrementalStat_sum(self.x2), IncrementalStat_sum(self.y2),
                      IncrementalStat_sum(self.xy))

Leaf_nb_params(self) == 3

\* the pairs of a leaf in stored order
Leaf_iter(self) ==
    [i \in 1..Len(self.x.values) |-> <<self.x.values[i], self.y.values[i]>>]

Reverse(s) == [i \in 1..Len(s) |-> s[Len(s) + 1 - i]]

\* a merge that takes other's pairs in their stored order
Mutant_add_in_stored_order(self, other) ==
    Leaf(self.x.values \o other.x.values, self.y.values \o other.y.values)

\* self + other: a fresh leaf of self's pairs, then other's in reverse
Leaf__add__(self, other) ==
    Leaf(self.x.values \o Reverse(other.x.values),
         self.y.values \o Reverse(other.y.values))

(***************************************************************************)
(* AbstractReg and Node (lines 96-166, 413-494): what both kinds share,    *)
(* dispatched on the kind.  The scores read self.RSS, len(self) and        *)
(* self.nb_params; the operators for them take these values as rss, n and  *)
(* nb, and the configuration self.config as cfg.                           *)
(***************************************************************************)
Node(left_node, right_node) ==
    [kind |-> "Node", left |-> left_node, right |-> right_node,
     errors |-> NoValue]

RECURSIVE len(_)
len(self) ==
    IF self.kind = "Leaf" THEN Leaf_len(self)
    ELSE len(self.left) + len(self.right)

RECURSIVE RSS(_)
RSS(self) ==
    IF self.kind = "Leaf" THEN Leaf_RSS(self)
    ELSE RAdd(RSS(self.left), RSS(self.right))

RECURSIVE nb_params(_)
nb_params(self) ==
    IF self.kind = "Leaf" THEN Leaf_nb_params(self)
    ELSE nb_params(self.left) + nb_params(self.right) + 1

null_RSS(rss, cfg) ==
    \/ RLeq(rss, R(0))
    \/ IsClose(rss, R(0), RMul(cfg.epsilon, cfg.epsilon))

\* lines 107-112 with eps2 = self.config.epsilon**2: [ret, exc], where
\* math.log2(0) raises ValueError
error_equal_tol(a, b, cfg, eps2) ==
    IF cfg.mode = "RSS"
    THEN [ret |-> IsClose(a, b, eps2), exc |-> "none"]
    ELSE IF eps2 = R(0)
    THEN [ret |-> FALSE, exc |-> "ValueError"]
    ELSE [ret |-> IsClose(a, b, RAbs(Log2(eps2))), exc |-> "none"]

error_equal(a, b, cfg) ==
    error_equal_tol(a, b, cfg, RMul(cfg.epsilon, cfg.epsilon))

MSE(rss, n) == RDiv(rss, R(n))

information_criteria(rss, n, param_penalty, cfg) ==
    RAdd(param_penalty,
         RMul(R(n), IF null_RSS(rss, cfg) THEN LnSubnormal
                    ELSE IF IsInf(rss) THEN Inf
                    ELSE Ln(rss)))

AIC(rss, n, nb, cfg) == information_criteria(rss, n, R(2 * nb), cfg)

BIC(rss, n, nb, cfg) ==
    information_criteria(rss, n, RMul(Ln(R(n)), R(nb)), cfg)

\* lines 367-370, with mse = self.MSE
Leaf_error_RSS(mse) == IF RLess(mse, R(0)) THEN R(0) ELSE Sqrt(mse)

Leaf_error(self, rss, cfg) ==
    IF Leaf_std_x(self) = R(0) THEN Inf
    ELSE IF cfg.mode = "AIC"
    THEN AIC(rss, Leaf_len(self), Leaf_nb_params(self), cfg)
    ELSE IF cfg.mode = "BIC"
    THEN BIC(rss, Leaf_len(self), Leaf_nb_params(self), cfg)
    ELSE Leaf_error_RSS(MSE(rss, Leaf_len(self)))

\* line 476, with the sizes and the errors of the two sides
Node_error_RSS(nl, nr, el, er) ==
    RAdd(RMul(RDiv(R(nl), R(nl + nr)), el), RMul(RDiv(R(nr), R(nl + nr)), er))

RECURSIVE error(_, _)
Node_error(self, rss, cfg) ==
    IF len(self.left) <= 1 \/ len(self.right) <= 1 THEN Inf
    ELSE IF cfg.mode = "AIC" THEN AIC(rss, len(self), nb_params(self), cfg)
    ELSE IF cfg.mode = "BIC" THEN BIC(rss, len(self), nb_params(self), cfg)
    ELSE Node_error_RSS(len(self.left), len(self.right),
                        error(self.left, cfg), error(self.right, cfg))

error(self, cfg) ==
    IF self.kind = "Leaf" THEN Leaf_error(self, RSS(self), cfg)
    ELSE Node_error(self, RSS(self), cfg)

\* a max that reads the last pair of the leaf, as if right leaves were
\* stored in ascending order
RECURSIVE Mutant_max_reads_last(_)
Mutant_max_reads_last(self) ==
    IF self.right.kind = "Node" THEN Mutant_max_reads_last(self.right)
    ELSE Leaf_last(self.right)

\* the largest element: through the right children to a leaf's first pair
RECURSIVE Node_max(_)
Node_max(self) ==
    IF self.right.kind = "Node" THEN Node_max(self.right)
    ELSE Leaf_first(self.right)          \* except AttributeError

\* the smallest element: through the left children to a leaf's first pair
RECURSIVE Node_min(_)
Node_min(self) ==
    IF self.left.kind = "Node" THEN Node_min(self.left)
    ELSE Leaf_first(self.left)           \* except AttributeError

Node_split(self) ==
    IF self.left.kind = "Node" THEN Node_max(self.left)
    ELSE Leaf_last(self.left)            \* except AttributeError

\* lines 480-481, with p the result of line 480
left_to_right_add(self, p) ==
    IF p.exc # "none" THEN [self |-> self, exc |-> p.exc]
    ELSE [self |-> [self EXCEPT !.left = p.self,
                                !.right = Leaf_add(@, p.x, p.y)],
          exc |-> "none"]

\* [self, exc]: move the last pair of the left leaf to the right leaf
left_to_right(self) == left_to_right_add(self, Leaf_pop(self.left))

\* lines 485-486, with p the result of line 485
right_to_left_add(self, p) ==
    IF p.exc # "none" THEN [self |-> self, exc |-> p.exc]
    ELSE [self |-> [self EXCEPT !.right = p.self,
                                !.left = Leaf_add(@, p.x, p.y)],
          exc |-> "none"]

\* [self, exc]: move the last pair of the right leaf to the left leaf
right_to_left(self) == right_to_left_add(self, Leaf_pop(self.right))

\* iteration over a tree: the left child, then the right child, a right
\* leaf in reverse (lines 431-435)
RECURSIVE iter(_)
iter(self) ==
    IF self.kind = "Leaf" THEN Leaf_iter(self)
    ELSE iter(self.left) \o (IF self.right.kind = "Leaf"
                             THEN Reverse(Leaf_iter(self.right))
                             ELSE iter(self.right))

(***************************************************************************)
(* A client of one IncrementalStat: any sequence of add and pop.           *)
(***************************************************************************)
IdleReg ==
    /\ pc = "unused"
    /\ dataset = <<>>
    /\ args = NoValue
    /\ config = NoValue
    /\ stack = <<>>
    /\ reg = NoValue
    /\ regPrev = <<>>
    /\ oracle = NoValue
    /\ raised = "none"

InitStat ==
    /\ IdleReg
    /\ \E func \in {"identity", "square"} : im = IncrementalStat(func)
    /\ imLog = <<>>

Logged(entry) ==
    IF Len(imLog) < 2 THEN Append(imLog, entry) ELSE <<imLog[2], entry>>

StatAdd ==
    /\ Len(im.values) < MaxStatLen
    /\ \E v \in StatValues :
         /\ im' = IncrementalStat_add(im, R(v))
         /\ imLog' = Logged([op |-> "add", arg |-> R(v), ret |-> NoValue,
                             exc |-> "none", before |-> im])
    /\ UNCHANGED regVars

StatPop ==
    /\ LET r == IncrementalStat_pop(im)
       IN  /\ im' = r.self
           /\ imLog' = Logged([op |-> "pop", arg |-> NoValue, ret |-> r.ret,
                               exc |-> r.exc, before |-> im])
    /\ UNCHANGED regVars

NextStat == StatAdd \/ StatPop

SpecStat == InitStat /\ [][NextStat]_vars

(***************************************************************************)
(* C6.  Push/pop round trip: in any state reached by adds and pops, an     *)
(* add(v) immediately followed by pop() returns v and leaves the           *)
(* accumulator exactly as it was before the add: the same values, hence    *)
(* the same count, and the same Ex and M2 histories, hence the same mean,  *)
(* M2 and history lengths.                                                 *)
(***************************************************************************)
AddThenPop ==
    /\ Len(imLog) = 2
    /\ imLog[1].op = "add"
    /\ imLog[2].op = "pop"

C6_PushPopRoundTrip ==
    AddThenPop =>
        /\ imLog[2].exc = "none"
        /\ imLog[2].ret = imLog[1].arg
        /\ im = imLog[1].before
        /\ Len(im.Ex) = Len(imLog[1].before.Ex)
        /\ Len(im.M2) = Len(imLog[1].before.M2)
        /\ IncrementalStat_mean(im) = IncrementalStat_mean(imLog[1].before)

\* the round trip on an accumulator that squares and already holds values
C6_Witness ==
    /\ AddThenPop
    /\ im.func = "square"
    /\ Len(im.values) = 2
    /\ imLog[2].ret = R(-1)

(***************************************************************************)
(* C7.  pop() on an accumulator holding no values raises (IndexError: the  *)
(* Empty outcome) and leaves it unchanged: values empty, Ex and M2 each    *)
(* with their single initial entry, as in a fresh accumulator.             *)
(***************************************************************************)
PoppedEmpty ==
    /\ Len(imLog) > 0
    /\ Last(imLog).op = "pop"
    /\ Len(Last(imLog).before.values) = 0

C7_PopEmptyFails ==
    PoppedEmpty =>
        /\ Last(imLog).exc = "IndexError"
        /\ im = Last(imLog).before
        /\ im = IncrementalStat(im.func)

\* an accumulator emptied by pops and then popped once more
C7_Witness ==
    /\ PoppedEmpty
    /\ Len(imLog) = 2
    /\ imLog[1].op = "pop"
    /\ imLog[1].exc = "none"

(***************************************************************************)
(* compute_best_fit (lines 533-571), one frame per call.  A frame holds    *)
(* the node (self) and the locals; pc is the line the frame stands at:     *)
(*   "loop"        at the head of the for loop (line 547)                  *)
(*   "rewind"      at the head of the while loop (line 558)                *)
(*   "left"        in the call of line 565                                 *)
(*   "call_right"  before line 566        "right"  in the call of line 566 *)
(*   "finish"      before line 567                                         *)
(* i = -1 stands for the loop variable before the first iteration.  swept  *)
(* is not in the code: it records self after each iteration of the sweep.  *)
(***************************************************************************)
deepcopy(obj) == obj

Error(nosplit, split, minsplit) ==
    [nosplit |-> nosplit, split |-> split, minsplit |-> minsplit]

\* lines 537-546
Enter(self) ==
    [self          |-> self,
     nosplit       |-> IF len(self.right) = 0 THEN deepcopy(self.left)
                       ELSE deepcopy(self.right),
     left_to_right |-> len(self.right) = 0,
     exc           |-> IF len(self.right) # 0 /\ len(self.left) # 0
                       THEN "AssertionError" ELSE "none",
     lowest_error  |-> error(self, config),
     lowest_index  |-> 0,
     lowest_split  |-> NoValue,
     new_errors    |-> <<>>,
     i             |-> -1,
     swept         |-> <<>>,
     pc            |-> "loop"]

\* line 547: range(len(self)-1) has a value after i
SweepContinues(i, n) == i + 1 < n - 1

\* line 552
Lower(err, lowest_error) == RLess(err, lowest_error)

\* lines 550-556, with self after lines 548-549, its error and its split
SweepRecord(f, i, self, exc, err, split) ==
    [f EXCEPT !.self = self,
              !.exc = exc,
              !.i = i,
              !.swept = Append(@, self),
              !.new_errors = Append(@, <<split, err>>),
              !.lowest_error = IF Lower(err, f.lowest_error) THEN err ELSE @,
              !.lowest_split = IF Lower(err, f.lowest_error) THEN split ELSE @,
              !.lowest_index = IF Lower(err, f.lowest_error) THEN i ELSE @]

SweepMoved(f, i, moved) ==
    SweepRecord(f, i, moved.self, moved.exc, error(moved.self, config),
                Node_split(moved.self))

\* lines 548-556: one iteration of the for loop, with i already advanced
SweepBody(f, i) ==
    SweepMoved(f, i, IF f.left_to_right THEN left_to_right(f.self)
                     ELSE right_to_left(f.self))

\* a rewind that goes one shift too far
Mutant_rewind_one_more(i, lowest_index) == i >= lowest_index

\* line 558
RewindContinues(i, lowest_index) == i > lowest_index

RewindMoved(f, moved) ==
    [f EXCEPT !.self = moved.self, !.exc = moved.exc, !.i = @ - 1]

\* lines 559-563: one iteration of the while loop
RewindBody(f) ==
    RewindMoved(f, IF f.left_to_right THEN right_to_left(f.self)
                   ELSE left_to_right(f.self))

\* a decision on the comparison alone, ties included
Mutant_split_on_ties(lowest_error, nosplit_error) ==
    [ret |-> RLeq(lowest_error, nosplit_error), exc |-> "none"]

\* line 557 with the two errors: [ret, exc]
SplitDecision(lowest_error, nosplit_error) ==
    IF ~RLess(lowest_error, nosplit_error)
    THEN [ret |-> FALSE, exc |-> "none"]
    ELSE [ret |-> ~error_equal(lowest_error, nosplit_error, config).ret,
          exc |-> error_equal(lowest_error, nosplit_error, config).exc]

\* line 557: [ret, exc]
SplitAccepted(f) == SplitDecision(f.lowest_error, error(f.nosplit, config))

Top == stack[Len(stack)]

Raise(exc) ==
    /\ raised' = exc
    /\ pc' = "raised"
    /\ stack' = <<>>
    /\ UNCHANGED <<dataset, args, config, reg, regPrev, oracle>>

\* the return of the innermost call: to the frame that made it, which
\* assigns the value (lines 565, 566), or to compute_regression (line 634)
Return(value) ==
    /\ IF Len(stack) = 1
       THEN /\ stack' = <<>>
            /\ reg' = value
            /\ pc' = "fitted"
       ELSE /\ stack' = Append(SubSeq(stack, 1, Len(stack) - 2),
                   IF stack[Len(stack) - 1].pc = "left"
                   THEN [stack[Len(stack) - 1] EXCEPT !.self.left = value,
                                                      !.pc = "call_right"]
                   ELSE [stack[Len(stack) - 1] EXCEPT !.self.right = value,
                                                      !.pc = "finish"])
            /\ UNCHANGED <<reg, pc>>
    /\ UNCHANGED <<dataset, args, config, regPrev, raised, oracle>>

\* the frame f replaces the innermost frame, unless its step raised
Store(f) ==
    IF f.exc # "none" THEN Raise(f.exc)
    ELSE /\ stack' = [stack EXCEPT ![Len(stack)] = f]
         /\ UNCHANGED <<pc, dataset, args, config, reg, regPrev, raised, oracle>>

\* the frame f of a new call goes on top of the frames of its callers
Push(caller_frames, f) ==
    IF f.exc # "none" THEN Raise(f.exc)
    ELSE /\ stack' = Append(caller_frames, f)
         /\ pc' = "fitting"
         /\ UNCHANGED <<dataset, args, config, reg, regPrev, raised, oracle>>

\* the call of compute_best_fit on a fresh node
Call(caller_frames, node) == Push(caller_frames, Enter(node))

(***************************************************************************)
(* simplify (lines 395-397, 580-598).  Leaf.__eq__ (lines 245-276) asks    *)
(* statsmodels about leaves of more than 5 pairs; the comparison is a      *)
(* parameter of the model, one of Policies, fixed for a run:               *)
(*   "Leaf.__eq__"  the rule of line 255, and for larger leaves the        *)
(*                  comparison of the fitted lines                         *)
(*   "both_small"   two leaves of at most 2 pairs each are equivalent      *)
(*   "never"        no two leaves are equivalent                           *)
(***************************************************************************)
Policies == {"Leaf.__eq__", "both_small", "never"}

SameLine(self, other) ==
    /\ IncrementalStat_var(self.x) # R(0)
    /\ IncrementalStat_var(other.x) # R(0)
    /\ Leaf_coeff(self) = Leaf_coeff(other)
    /\ Leaf_intercept(self) = Leaf_intercept(other)

Leaf__eq__(self, other, policy) ==
    IF policy = "never" THEN FALSE
    ELSE IF policy = "both_small"
    THEN Leaf_len(self) <= 2 /\ Leaf_len(other) <= 2
    ELSE IF Leaf_len(self) <= 5 \/ Leaf_len(other) <= 5 THEN TRUE
    ELSE SameLine(self, other)

\* lines 585-586: the lists of values reversed in place, the histories not
ReverseValues(self) ==
    [self EXCEPT !.x.values = Reverse(@), !.y.values = Reverse(@)]

\* a simplify that reverses every right leaf
Mutant_reverse_every_leaf(before, after) == after.kind = "Leaf"

\* line 584
TypeChanged(before, after) == before.kind # after.kind

\* line 589, with merge of line 588
Mergeable(left, right, merge, policy) ==
    \/ Leaf__eq__(left, right, policy)
    \/ Leaf__eq__(merge, left, policy)
    \/ Leaf__eq__(merge, right, policy)

\* lines 587-598, with left and right after lines 582-586
Node_simplify_result(self, left, right, policy) ==
    IF /\ left.kind = "Leaf"
       /\ right.kind = "Leaf"
       /\ Mergeable(left, right, Leaf__add__(left, right), policy)
    THEN [Leaf__add__(left, right) EXCEPT !.errors = self.errors]
    ELSE [Node(left, right) EXCEPT !.errors = self.errors]

\* lines 584-586, with right of line 583
Node_simplify_right(self, right) ==
    IF TypeChanged(self.right, right) THEN ReverseValues(right) ELSE right

RECURSIVE simplify(_, _)
simplify(self, policy) ==
    IF self.kind = "Leaf" THEN self
    ELSE Node_simplify_result(self, simplify(self.left, policy),
             Node_simplify_right(self, simplify(self.right, policy)), policy)

(***************************************************************************)
(* compute_regression (lines 615-637).                                     *)
(***************************************************************************)
Pairs == XValues \X YValues

SmallInputs == UNION {[1..n -> Pairs] : n \in 0..MaxLen}

LongInputs ==
    {[i \in 1..LongLen |-> <<i - 1, ys[i]>>] : ys \in [1..LongLen -> LongYValues]}

Modes == allowed_modes \cup {"MSE"}

Epsilons == {NoValue, R(0), R(-1), <<1, 2>>}

\* a sort on the x values alone
Mutant_less_by_x(p, q) == p[1] < q[1]

\* the order of tuples: first components, then second components
TupleLess(p, q) == p[1] < q[1] \/ (p[1] = q[1] /\ p[2] < q[2])

\* list with p inserted after every element not greater than p
RECURSIVE Insert(_, _)
Insert(list, p) ==
    IF list = <<>> THEN <<p>>
    ELSE IF TupleLess(p, list[1]) THEN <<p>> \o list
    ELSE <<list[1]>> \o Insert(Tail(list), p)

\* sorted(dataset): stable, ascending
RECURSIVE sorted(_)
sorted(list) ==
    IF list = <<>> THEN <<>>
    ELSE Insert(sorted(Front(list)), Last(list))

RECURSIVE MinAbs(_)
MinAbs(ys) ==
    IF Len(ys) = 1 THEN Abs(ys[1])
    ELSE IF Abs(ys[1]) < MinAbs(Tail(ys)) THEN Abs(ys[1])
    ELSE MinAbs(Tail(ys))

Column(list, k) == [i \in 1..Len(list) |-> R(list[i][k])]

\* lines 629-632: [epsilon, exc]
EffectiveEpsilon(eps, y) ==
    IF eps # NoValue /\ eps # R(0)                       \* if epsilon:
    THEN [epsilon |-> eps,
          exc |-> IF RLess(R(0), eps) THEN "none" ELSE "AssertionError"]
    ELSE IF Len(y) = 0
    THEN [epsilon |-> eps, exc |-> "ValueError"]         \* min([])
    ELSE [epsilon |-> R(MinAbs(y)), exc |-> "none"]

\* line 633, with the outcome e of lines 629-632: [exc, mode, epsilon]
Configured(m, e) ==
    IF e.exc # "none" THEN [exc |-> e.exc, mode |-> m, epsilon |-> e.epsilon]
    ELSE Config(m, e.epsilon)

Init ==
    /\ pc = "call"
    /\ \E x \in SmallInputs \cup LongInputs : args = [x |-> x]
    /\ dataset = <<>>
    /\ config = NoValue
    /\ stack = <<>>
    /\ reg = NoValue
    /\ regPrev = <<>>
    /\ oracle = NoValue
    /\ raised = "none"
    /\ im = IncrementalStat("identity")
    /\ imLog = <<>>

\* lines 620-626
Sort ==
    /\ pc = "call"
    /\ dataset' = sorted(args.x)
    /\ pc' = "sorted"
    /\ UNCHANGED <<args, config, stack, reg, regPrev, raised, oracle, imVars>>

\* lines 627-633, with the outcome c of line 633
Configure_outcome(m, eps, c) ==
    /\ args' = [mode |-> m, epsilon |-> eps]
    /\ IF c.exc # "none"
       THEN /\ raised' = c.exc
            /\ pc' = "raised"
            /\ config' = config
       ELSE /\ config' = c
            /\ pc' = "configured"
            /\ raised' = raised

\* lines 627-633; the arguments mode and epsilon are first read here
Configure ==
    /\ pc = "sorted"
    /\ \E m \in Modes, eps \in Epsilons :
         Configure_outcome(m, eps,
             Configured(m, EffectiveEpsilon(eps,
                 [i \in 1..Len(dataset) |-> dataset[i][2]])))
    /\ UNCHANGED <<dataset, stack, reg, regPrev, oracle, imVars>>

\* line 634: the root node and the call on it
RootCall ==
    /\ pc = "configured"
    /\ Call(<<>>, Node(Leaf(Column(dataset, 1), Column(dataset, 2)),
                       Leaf(<<>>, <<>>)))
    /\ UNCHANGED imVars

\* lines 547-556: one iteration of the sweep
SweepStep ==
    /\ pc = "fitting"
    /\ Top.pc = "loop"
    /\ SweepContinues(Top.i, len(Top.self))
    /\ Store(SweepBody(Top, Top.i + 1))
    /\ UNCHANGED imVars

SweepDone ==
    /\ pc = "fitting"
    /\ Top.pc = "loop"
    /\ ~SweepContinues(Top.i, len(Top.self))

\* line 557, true: on to the rewind
Accept ==
    /\ SweepDone
    /\ SplitAccepted(Top) = [ret |-> TRUE, exc |-> "none"]
    /\ stack' = [stack EXCEPT ![Len(stack)].pc = "rewind"]
    /\ UNCHANGED <<pc, dataset, args, config, reg, regPrev, raised, oracle,
                   imVars>>

\* a return of the swept child in place of the copy taken on entry
Mutant_refuse_returns_swept ==
    /\ SweepDone
    /\ SplitAccepted(Top) = [ret |-> FALSE, exc |-> "none"]
    /\ Return([(IF Top.left_to_right THEN Top.self.left ELSE Top.self.right)
                   EXCEPT !.errors =
                   Error(error(Top.nosplit, config), Top.new_errors,
                         Top.lowest_error)])
    /\ UNCHANGED imVars

\* line 557, false: lines 570-571
Refuse ==
    /\ SweepDone
    /\ SplitAccepted(Top) = [ret |-> FALSE, exc |-> "none"]
    /\ Return([Top.nosplit EXCEPT !.errors =
                   Error(error(Top.nosplit, config), Top.new_errors,
                         Top.lowest_error)])
    /\ UNCHANGED imVars

\* line 557 raises
DecisionRaises ==
    /\ SweepDone
    /\ \E exc \in {"ValueError"} :
         /\ SplitAccepted(Top).exc = exc
         /\ Raise(exc)
    /\ UNCHANGED imVars

\* lines 558-563: one iteration of the rewind
RewindStep ==
    /\ pc = "fitting"
    /\ Top.pc = "rewind"
    /\ RewindContinues(Top.i, Top.lowest_index)
    /\ Store(RewindBody(Top))
    /\ UNCHANGED imVars

\* lines 564-565: the assertion, then the call on the left side
CallLeft ==
    /\ pc = "fitting"
    /\ Top.pc = "rewind"
    /\ ~RewindContinues(Top.i, Top.lowest_index)
    /\ IF Top.lowest_split # Node_split(Top.self) THEN Raise("AssertionError")
       ELSE Call([stack EXCEPT ![Len(stack)].pc = "left"],
                 Node(Top.self.left, Leaf(<<>>, <<>>)))
    /\ UNCHANGED imVars

\* line 566: the call on the right side
CallRight ==
    /\ pc = "fitting"
    /\ Top.pc = "call_right"
    /\ Call([stack EXCEPT ![Len(stack)].pc = "right"],
            Node(Leaf(<<>>, <<>>), Top.self.right))
    /\ UNCHANGED imVars

\* lines 567-568
Finish ==
    /\ pc = "fitting"
    /\ Top.pc = "finish"
    /\ Return([Top.self EXCEPT !.errors =
                   Error(error(Top.nosplit, config), Top.new_errors,
                         Top.lowest_error)])
    /\ UNCHANGED imVars

\* lines 635-637: flag is the test of line 635 (statsmodels is there and
\* the argument simplify is set), read here first with the comparison of
\* leaves; without simplification no comparison is made and the one of the
\* code is recorded.  regPrev keeps the tree of line 634.
Simplify ==
    /\ pc = "fitted"
    /\ \E flag \in BOOLEAN, policy \in Policies :
         /\ flag \/ policy = "Leaf.__eq__"
         /\ oracle' = [simplify |-> flag, policy |-> policy]
         /\ reg' = IF flag THEN simplify(reg, policy) ELSE reg
    /\ regPrev' = <<reg>>
    /\ pc' = "returned"
    /\ UNCHANGED <<dataset, args, config, stack, raised, imVars>>

\* the caller simplifies the tree it got once more
SimplifyAgain ==
    /\ pc = "returned"
    /\ oracle.simplify
    /\ reg' = simplify(reg, oracle.policy)
    /\ regPrev' = Append(regPrev, reg)
    /\ pc' = "simplified_again"
    /\ UNCHANGED <<dataset, args, config, stack, raised, oracle, imVars>>

Next ==
    \/ Sort
    \/ Configure
    \/ RootCall
    \/ SweepStep
    \/ Accept
    \/ Refuse
    \/ DecisionRaises
    \/ RewindStep
    \/ CallLeft
    \/ CallRight
    \/ Finish
    \/ Simplify
    \/ SimplifyAgain

Spec == Init /\ [][Next]_vars


(***************************************************************************)
(* What the claims about trees speak of.                                   *)
(***************************************************************************)
\* the internal nodes of a tree
RECURSIVE InternalNodes(_)
InternalNodes(t) ==
    IF t.kind = "Leaf" THEN {}
    ELSE {t} \cup InternalNodes(t.left) \cup InternalNodes(t.right)

\* the x values stored in a tree
RECURSIVE StoredX(_)
StoredX(t) ==
    IF t.kind = "Leaf" THEN {t.x.values[i] : i \in 1..Len(t.x.values)}
    ELSE StoredX(t.left) \cup StoredX(t.right)

\* compute_best_fit has returned its tree to compute_regression
Fitted == pc = "fitted"

\* the arguments mode and epsilon have been read
ArgumentsRead == pc \notin {"unused", "call", "sorted"}

(***************************************************************************)
(* C1.  In every tree returned by compute_best_fit, for every internal     *)
(* node, the largest x stored in the left subtree is <= node.split, and    *)
(* node.split is strictly < the smallest x stored in the right subtree.    *)
(* The code breaks the strict half on repeated x values: the sweep moves   *)
(* one pair at a time, so a boundary can fall between two pairs of equal   *)
(* x, and the right subtree then stores an x equal to the split.           *)
(***************************************************************************)
C1_SplitSeparates ==
    Fitted =>
        \A node \in InternalNodes(reg) :
            /\ \A x \in StoredX(node.left) : RLeq(x, Node_split(node))
            /\ \A x \in StoredX(node.right) : RLess(Node_split(node), x)

\* a returned tree whose right subtree stores the split itself
C1_Witness ==
    /\ Fitted
    /\ \E node \in InternalNodes(reg) : Node_split(node) \in StoredX(node.right)

(***************************************************************************)
(* C2.  For every internal node of a tree returned by compute_best_fit,    *)
(* node.split is the maximum x stored in its left subtree: it is stored    *)
(* there and no x stored there is larger, whether the left child is a      *)
(* leaf or a node.                                                         *)
(***************************************************************************)
C2_SplitIsLeftMax ==
    Fitted =>
        \A node \in InternalNodes(reg) :
            /\ Node_split(node) \in StoredX(node.left)
            /\ \A x \in StoredX(node.left) : RLeq(x, Node_split(node))

\* a returned tree with a node whose left child is a node, holding a right
\* leaf of several x, and with a node whose left child is a leaf
C2_Witness ==
    /\ Fitted
    /\ \E node \in InternalNodes(reg) :
         /\ node.left.kind = "Node"
         /\ Cardinality(StoredX(node.left.right)) > 1
    /\ \E node \in InternalNodes(reg) : node.left.kind = "Leaf"

(***************************************************************************)
(* C3.  compute_regression is invariant under input order: every           *)
(* permutation of the list passed sorts to the same list, the one the call *)
(* holds after line 626; mode, epsilon and this list are all that the      *)
(* later steps read, so the trees returned are identical.                  *)
(***************************************************************************)
Permuted(list) ==
    {[i \in 1..Len(list) |-> list[f[i]]] : f \in Permutations(1..Len(list))}

C3_OrderInvariant ==
    pc = "sorted" => \A p \in Permuted(args.x) : sorted(p) = dataset

\* a list of MaxLen pairs passed out of order, two of them with the same x
C3_Witness ==
    /\ pc = "sorted"
    /\ Len(dataset) = MaxLen
    /\ args.x # dataset
    /\ \E i \in 1..(MaxLen - 1) :
         /\ dataset[i][1] = dataset[i + 1][1]
         /\ dataset[i][2] # dataset[i + 1][2]

(***************************************************************************)
(* C4.  compute_regression called with a non-positive epsilon (0 or below) *)
(* ends in an error raised before the Config is built and returns no tree; *)
(* it never goes on with another epsilon.  The code takes epsilon = 0 for  *)
(* no epsilon at all (line 629) and goes on with min |y|.                  *)
(***************************************************************************)
NonPositiveEpsilon ==
    /\ ArgumentsRead
    /\ args.epsilon # NoValue
    /\ ~RLess(R(0), args.epsilon)

C4_NonPositiveEpsilonRejected ==
    NonPositiveEpsilon =>
        /\ pc = "raised"
        /\ config = NoValue
        /\ reg = NoValue

\* a tree returned for epsilon = 0, computed with another epsilon
C4_Witness ==
    /\ Fitted
    /\ args.epsilon = R(0)
    /\ config.epsilon # R(0)
    /\ reg.kind = "Node"

(***************************************************************************)
(* C5.  For every non-empty dataset, every allowed mode and no epsilon     *)
(* given, compute_regression reaches no error.  The code raises ValueError *)
(* from math.log2(0) in error_equal when some y is 0, the mode is AIC or   *)
(* BIC and a swept error is below the error of the unsplit leaf.           *)
(***************************************************************************)
DefaultsOnData ==
    /\ ArgumentsRead
    /\ args.epsilon = NoValue
    /\ args.mode \in allowed_modes
    /\ Len(dataset) > 0

C5_NoErrorOnDefaults == DefaultsOnData => pc # "raised"

\* the call has raised from line 557 with the default epsilon 0
C5_Witness ==
    /\ DefaultsOnData
    /\ pc = "raised"
    /\ raised = "ValueError"
    /\ config.epsilon = R(0)

(***************************************************************************)
(* C8.  Simplification is idempotent: for a tree t of compute_best_fit     *)
(* and a fixed comparison of leaves, simplify(simplify(t)) is              *)
(* simplify(t): the same shape, splits, pairs in the same stored order,    *)
(* and the same histories and errors.                                      *)
(***************************************************************************)
C8_SimplifyIdempotent == pc = "simplified_again" => reg = regPrev[2]

\* the first simplify() merged some leaves and left a node
C8_Witness ==
    /\ pc = "simplified_again"
    /\ regPrev[1] # regPrev[2]
    /\ regPrev[2].kind = "Node"

(***************************************************************************)
(* C9.  Split selection over n observations: the sweep scores the n-1      *)
(* boundary positions; the split is accepted if and only if the minimum    *)
(* swept error is strictly less than the error of the unsplit leaf and the *)
(* two are not equal under the epsilon policy, and then the boundary kept  *)
(* is the earliest that attains the minimum; otherwise the unsplit leaf is *)
(* returned.  The code does neither when the comparison under the epsilon  *)
(* policy raises (epsilon = 0 in mode AIC or BIC).                         *)
(***************************************************************************)
SweptErrors(f) == {f.new_errors[k][2] : k \in 1..Len(f.new_errors)} \cup {Inf}

MinSweptError(f) ==
    CHOOSE e \in SweptErrors(f) : \A other \in SweptErrors(f) : RLeq(e, other)

EarliestMin(f) ==
    CHOOSE k \in 1..Len(f.new_errors) :
        /\ f.new_errors[k][2] = MinSweptError(f)
        /\ \A j \in 1..(k - 1) : f.new_errors[j][2] # MinSweptError(f)

ShouldSplit(f) ==
    /\ RLess(MinSweptError(f), error(f.nosplit, config))
    /\ ~error_equal(MinSweptError(f), error(f.nosplit, config), config).ret

\* the value the last return handed over
ReturnedValue ==
    IF pc = "fitted" THEN reg
    ELSE IF Top.pc = "call_right" THEN Top.self.left
    ELSE Top.self.right

SplitKept ==
    /\ stack' = [stack EXCEPT ![Len(stack)].pc = "rewind"]
    /\ Top.lowest_error = MinSweptError(Top)
    /\ Top.lowest_index + 1 = EarliestMin(Top)
    /\ Top.lowest_split = Top.new_errors[EarliestMin(Top)][1]

NoSplitReturned ==
    /\ pc' # "raised"
    /\ Len(stack') = Len(stack) - 1
    /\ ReturnedValue'.kind = "Leaf"
    /\ [ReturnedValue' EXCEPT !.errors = NoValue] = Top.nosplit

Selection ==
    /\ Len(Top.new_errors) + 1 = len(Top.self) \/ len(Top.self) = 0
    /\ \A k \in 1..Len(Top.new_errors) : Top.new_errors[k] =
           <<Node_split(Top.swept[k]), error(Top.swept[k], config)>>
    /\ IF ShouldSplit(Top) THEN SplitKept ELSE NoSplitReturned

C9_SplitSelection == [][SweepDone => Selection]_vars

\* C9 where line 557 does not raise: the selection is as the claim says
C9_SelectionUnlessRaised == [][SweepDone /\ pc' # "raised" => Selection]_vars

\* line 557 has raised: no split was accepted and no leaf was returned
C9_Witness ==
    /\ pc = "raised"
    /\ raised = "ValueError"
    /\ config # NoValue
    /\ reg = NoValue

(***************************************************************************)
(* C10.  Rewind exactness: whenever a split is accepted, after the inverse *)
(* shifts the two children of the node hold the pairs, in the same stored  *)
(* order, that they held right after sweep step lowest_index, and          *)
(* self.split is lowest_split, so the assertion of line 564 holds in both  *)
(* sweep directions.                                                       *)
(***************************************************************************)
Rewound(f) == f.pc = "rewind" /\ ~RewindContinues(f.i, f.lowest_index)

C10_RewindExact ==
    \A k \in 1..Len(stack) :
        Rewound(stack[k]) =>
            /\ stack[k].self = stack[k].swept[stack[k].lowest_index + 1]
            /\ Leaf_iter(stack[k].self.left)
                   = Leaf_iter(stack[k].swept[stack[k].lowest_index + 1].left)
            /\ Leaf_iter(stack[k].self.right)
                   = Leaf_iter(stack[k].swept[stack[k].lowest_index + 1].right)
            /\ Node_split(stack[k].self) = stack[k].lowest_split

\* a right-to-left call inside a left-to-right one, after a rewind of at
\* least one shift in each
C10_Witness ==
    /\ Len(stack) = 2
    /\ Rewound(stack[2])
    /\ stack[1].left_to_right
    /\ ~stack[2].left_to_right
    /\ Len(stack[1].swept) > stack[1].lowest_index + 1
    /\ Len(stack[2].swept) > stack[2].lowest_index + 1

(***************************************************************************)
(* C11.  compute_best_fit terminates on every finite dataset.  A node with *)
(* 0 or 1 observations on a side scores +infinity and is never accepted;   *)
(* every accepted split leaves each side with at least 2 observations and  *)
(* strictly fewer than the node being split held on entry, so every nested *)
(* call works on strictly fewer observations than its caller; and every    *)
(* call of compute_regression that reaches line 634 ends: it gets its tree *)
(* back, or line 557 raises ValueError (see C5).                           *)
(***************************************************************************)
\* a statement is left to execute: no exception has ended the run and the
\* caller has not made its last call
Running ==
    /\ pc \notin {"raised", "simplified_again"}
    /\ pc = "returned" => oracle.simplify

\* a sequential program goes on with its next statement: weak fairness of
\* Next, with Running for the states where Next is enabled
FairSpec == Spec /\ (<>[]Running => []<><<Next>>_vars)

\* inside compute_best_fit the innermost frame stands at a line that has a
\* next step, and line 557 is true, false or raises ValueError
NotStuck ==
    pc = "fitting" =>
        /\ Len(stack) >= 1
        /\ Top.pc \in {"loop", "rewind", "call_right", "finish"}
        /\ \A k \in 1..(Len(stack) - 1) : stack[k].pc \in {"left", "right"}
        /\ SweepDone =>
               /\ SplitAccepted(Top).ret \in BOOLEAN
               /\ SplitAccepted(Top).exc \in {"none", "ValueError"}

\* the frame is past line 563: the split was accepted and the rewind is over
SplitMade(f) ==
    \/ Rewound(f)
    \/ f.pc \in {"left", "call_right", "right", "finish"}

SidesShrink(f) ==
    /\ len(f.self.left) >= 2
    /\ len(f.self.right) >= 2
    /\ len(f.self.left) < len(f.nosplit)
    /\ len(f.self.right) < len(f.nosplit)

SmallSideIsInfinite(f) ==
    \A k \in 1..Len(f.swept) :
        (len(f.swept[k].left) <= 1 \/ len(f.swept[k].right) <= 1) =>
            /\ f.new_errors[k][2] = Inf
            /\ (f.pc # "loop" => f.lowest_index + 1 # k)

SplitsShrink ==
    /\ \A k \in 1..Len(stack) :
         /\ SmallSideIsInfinite(stack[k])
         /\ SplitMade(stack[k]) => SidesShrink(stack[k])
    /\ \A k \in 1..(Len(stack) - 1) :
         len(stack[k + 1].self) < len(stack[k].self)

\* the only exception of lines 533-571 is the ValueError of line 557
OnlyDecisionRaises ==
    (pc = "raised" /\ config # NoValue) => raised = "ValueError"

CallEnds == (pc = "fitting") ~> (pc \in {"fitted", "raised"})

C11_Terminates ==
    []SplitsShrink /\ []NotStuck /\ []OnlyDecisionRaises /\ CallEnds

\* the recursion went two calls deep and the tree came back
C11_Witness ==
    /\ Fitted
    /\ reg.kind = "Node"
    /\ \E node \in InternalNodes(reg) :
         node.left.kind = "Node" \/ node.right.kind = "Node"
    /\ len(reg) = LongLen

(***************************************************************************)
(* C12.  The no-split baseline is unaffected by the sweep: when            *)
(* compute_best_fit refuses to split, the leaf it returns holds exactly    *)
(* the observations that the non-empty child held on entry, in the same    *)
(* stored order and with the same six accumulator histories, after the     *)
(* sweep has made every one of its len(self) - 1 boundary shifts.          *)
(***************************************************************************)
\* the non-empty child of the node the innermost call was made on, as the
\* maker of the call holds it: the leaf of line 634, or the side of its node
\* that lines 565, 566 pass on
EntryChild ==
    IF Len(stack) = 1
    THEN Leaf(Column(dataset, 1), Column(dataset, 2))
    ELSE IF stack[Len(stack) - 1].pc = "left"
    THEN stack[Len(stack) - 1].self.left
    ELSE stack[Len(stack) - 1].self.right

\* the innermost call returns from the end of its sweep: lines 570-571
Refused ==
    /\ SweepDone
    /\ pc' # "raised"
    /\ Len(stack') = Len(stack) - 1

\* the sweep has emptied the child that was full on entry, but for one pair
SweptThrough(f) ==
    /\ Len(f.swept) = len(f.self) - 1
    /\ len(IF f.left_to_right THEN f.self.left ELSE f.self.right) = 1

\* the leaf returned is the leaf child: the pairs in the same stored order
\* and the histories of the six accumulators
SameLeaf(returned, child) ==
    /\ returned.kind = "Leaf"
    /\ [returned EXCEPT !.errors = NoValue] = child
    /\ Leaf_iter(returned) = Leaf_iter(child)
    /\ \A name \in {"x", "y", "xy", "x2", "y2", "cov_sum"} :
         /\ returned[name].Ex = child[name].Ex
         /\ returned[name].M2 = child[name].M2

BaselineKept ==
    /\ SameLeaf(ReturnedValue', EntryChild)
    /\ len(Top.self) >= 1 => SweptThrough(Top)

C12_BaselineUnaffected == [][Refused => BaselineKept]_vars

\* a call on a right side of 3 pairs or more, stored in descending order,
\* has refused to split after its sweep and handed the leaf back
C12_Witness ==
    /\ pc = "fitting"
    /\ Top.pc = "finish"
    /\ Top.self.right.kind = "Leaf"
    /\ Leaf_len(Top.self.right) >= 3
    /\ RLess(Leaf_last(Top.self.right), Leaf_first(Top.self.right))

(***************************************************************************)
(* C13.  Observation conservation and order: iterating the tree returned   *)
(* by compute_regression, with or without simplification, yields exactly   *)
(* the input pairs, each exactly once, in ascending sorted order; nothing  *)
(* is lost, duplicated or reordered by the sweep, the rewind, the calls on *)
(* left-full and right-full nodes, or the merging and reversal of          *)
(* simplify.                                                               *)
(***************************************************************************)
\* the pairs passed, in the order of line 626, as the leaves hold them
SortedInput == [i \in 1..Len(dataset) |-> <<R(dataset[i][1]), R(dataset[i][2])>>]

\* the same pairs the same number of times
SameBag(s, t) ==
    /\ Len(s) = Len(t)
    /\ \A p \in {s[i] : i \in 1..Len(s)} \cup {t[i] : i \in 1..Len(t)} :
         Cardinality({i \in 1..Len(s) : s[i] = p})
             = Cardinality({i \in 1..Len(t) : t[i] = p})

\* line 626 keeps the pairs passed and puts them in ascending order
SortedKeepsPairs ==
    /\ SameBag(dataset, args.x)
    /\ \A i \in 1..(Len(dataset) - 1) : ~TupleLess(dataset[i + 1], dataset[i])

\* line 634 or line 637 holds the tree
TreeAtHand == pc \in {"fitted", "returned"}

C13_ObservationsConserved ==
    /\ pc = "sorted" => SortedKeepsPairs
    /\ TreeAtHand =>
         /\ iter(reg) = SortedInput
         /\ len(reg) = Len(dataset)

\* simplify has merged the two leaves of a right subtree, reversed the
\* merged leaf and kept the node above it
C13_Witness ==
    /\ pc = "returned"
    /\ oracle.simplify
    /\ regPrev[1].kind = "Node"
    /\ regPrev[1].right.kind = "Node"
    /\ reg.kind = "Node"
    /\ reg.right.kind = "Leaf"
    /\ RLess(Leaf_last(reg.right), Leaf_first(reg.right))

====
